---- MODULE Spec2Model ----
(***************************************************************************)
(* Model of gradio_app/app.py: the voice_chat request handler, the          *)
(* temporary files it writes, the clock its file names are taken from, and  *)
(* the submit chain show_processing -> voice_chat -> hide_processing.       *)
(*                                                                          *)
(* Strings are sequences of tokens, so that "message m contains text t"     *)
(* is a sub-sequence test.  The emoji that open the status strings of the   *)
(* source are left out of the tokens.  A byte string (a file's contents,    *)
(* a response body) is a sequence of tokens as well.                        *)
(***************************************************************************)
EXTENDS Integers, Sequences, FiniteSets, TLC

\* ---------------------------------------------------------------- bounds
MaxClicks == 2          \* submit clicks in one behaviour
MaxTime == 1            \* the clock runs over the seconds 0..MaxTime

Clicks == 1..MaxClicks
Seconds == 0..MaxTime

\* ---------------------------------------------------------------- values
None == <<>>

API_URL == <<"http://localhost:8000", "/voice-chat">>

\* An AudioCapture is the pair (sr, audio_data) of `sr, audio_data = audio`.
Audios == {None, <<"16000", <<"s1", "s2">>>>}

\* scipy.io.wavfile.write: a header, the sample rate, then the samples.
WavEncode(audio) == <<"RIFF", audio[1]>> \o audio[2]

\* The two file names voice_chat builds from int(time.time()).
InputPath(t) == <<"input", t>>
OutputPath(t) == <<"tts_output", t>>

\* ---------------------------------------------------------------- status strings
MsgNoAudio == <<"Rekaman suara diperlukan">>
MsgSaveFailed == <<"Gagal menyimpan rekaman">>
MsgTimeout == <<"Waktu habis. Server terlalu lama merespons.">>
MsgUnreachable == <<"Koneksi ke server gagal. Pastikan server aktif di ", "http://localhost:8000">>
MsgRequestError(e) == <<"Kesalahan: ", e>>
MsgEmptyResponse == <<"Server mengembalikan respons kosong">>
MsgOutputInvalid == <<"File audio respons kosong atau tidak valid">>
MsgOutputSaveFailed(e) == <<"Gagal menyimpan file audio respons: ", e>>
MsgSuccess == <<"Jawaban siap diputar">>
MsgServerError(detail) == <<"Error Server: ">> \o detail
MsgSystemError(e) == <<"Kesalahan sistem: ", e>>
MsgReady == <<"Sistem siap menerima pesan suara">>

\* ---------------------------------------------------------------- exceptions
\* The classes an exception is an instance of (its class and its bases).
Mro(e) ==
    CASE e = "ReadTimeout" -> {"ReadTimeout", "Timeout", "RequestException", "OSError", "Exception"}
      [] e = "ConnectTimeout" -> {"ConnectTimeout", "ConnectionError", "Timeout", "RequestException", "OSError", "Exception"}
      [] e = "ConnectionError" -> {"ConnectionError", "RequestException", "OSError", "Exception"}
      [] e = "TooManyRedirects" -> {"TooManyRedirects", "RequestException", "OSError", "Exception"}
      [] e = "OSError" -> {"OSError", "Exception"}
      [] e = "ValueError" -> {"ValueError", "Exception"}
      [] OTHER -> {"Exception"}

IsInstance(e, cls) == cls \in Mro(e)

\* ---------------------------------------------------------------- the server's replies
\* Response bodies the server may send: nothing, two audio payloads of
\* different length, and the structured error bodies of a failing server.
Bodies ==
    { <<>>,
      <<"RIFF", "WAVE">>,
      <<"[", "]">>,
      <<"{", "code", ":", "overload", "}">>,
      <<"{", "message", ":", "overload", "}">> }

StatusCodes == {200, 500}

\* Exceptions requests.post can end in.
PostExceptions == {"ReadTimeout", "ConnectTimeout", "ConnectionError", "TooManyRedirects"}

\* What requests.post ended in: an exception (exc) or a response.
NoResponse == [exc |-> "", status_code |-> 0, content |-> <<>>]
Raised(e) == [exc |-> e, status_code |-> 0, content |-> <<>>]
Responses == [exc : {""}, status_code : StatusCodes, content : Bodies]

\* response.json() over the token form of a body: an object with no or one
\* member, an array with no or one element; everything else does not parse.
JsonIsObject(c) ==
    /\ Len(c) \in {2, 5}
    /\ c[1] = "{"
    /\ c[Len(c)] = "}"
    /\ Len(c) = 5 => c[3] = ":"

JsonIsArray(c) ==
    /\ Len(c) \in {2, 3}
    /\ c[1] = "["
    /\ c[Len(c)] = "]"

JsonParses(c) == JsonIsObject(c) \/ JsonIsArray(c)

\* error_content.get('message', default) on a parsed object.
JsonGetMessage(c, default) ==
    IF Len(c) = 5 /\ c[2] = "message" THEN <<c[4]>> ELSE default

StatusDetail(response) == <<"Kode status: ", ToString(response.status_code)>>

\* ErrorDetail with the message field never looked at.
ErrorDetail_StatusOnly(response) == StatusDetail(response)

\* Lines 112-116: the detail of a non-200 reply.  An empty body stands for
\* the empty mapping; a body that does not parse, or parses to something
\* without .get, raises inside the try and the bare except takes over.
ErrorDetail(response) ==
    IF response.content = <<>>
    THEN StatusDetail(response)
    ELSE IF ~JsonParses(response.content)
    THEN StatusDetail(response)
    ELSE IF ~JsonIsObject(response.content)
    THEN StatusDetail(response)
    ELSE JsonGetMessage(response.content, StatusDetail(response))

\* RequestExcept with the ConnectionError clause placed before the Timeout clause.
RequestExcept_ConnectionFirst(e) ==
    IF IsInstance(e, "ConnectionError") THEN <<None, MsgUnreachable>>
    ELSE IF IsInstance(e, "Timeout") THEN <<None, MsgTimeout>>
    ELSE <<None, MsgRequestError(e)>>

\* RequestExcept without the ConnectionError clause.
RequestExcept_NoConnectionClause(e) ==
    IF IsInstance(e, "Timeout") THEN <<None, MsgTimeout>>
    ELSE <<None, MsgRequestError(e)>>

\* Lines 60-73: the except clauses around requests.post, in source order.
RequestExcept(e) ==
    IF IsInstance(e, "Timeout") THEN <<None, MsgTimeout>>
    ELSE IF IsInstance(e, "ConnectionError") THEN <<None, MsgUnreachable>>
    ELSE <<None, MsgRequestError(e)>>

\* OuterCatches as `except OSError` would have it.
OuterCatches_OSErrorOnly(e) == IsInstance(e, "OSError")

\* Line 121: `except Exception` catches every exception raised in the body.
OuterCatches(e) == IsInstance(e, "Exception")

\* IsEmptyContent with the test of line 84 left out.
IsEmptyContent_Never(response) == FALSE

\* Line 84: `not response.content`.
IsEmptyContent(response) == response.content = <<>>

\* OutputBytes losing the last byte of the body.
OutputBytes_Short(response) == SubSeq(response.content, 1, Len(response.content) - 1)

\* Line 94: the bytes f.write puts into the output file.
OutputBytes(response) == response.content

\* OutputVerified without the size test.
OutputVerified_ExistsOnly(files, p) == p \in DOMAIN files

\* Line 98: os.path.exists(p) and os.path.getsize(p) != 0.
OutputVerified(files, p) == p \in DOMAIN files /\ Len(files[p]) # 0

\* ---------------------------------------------------------------- file system
FilePut(files, p, data) ==
    [q \in DOMAIN files \cup {p} |-> IF q = p THEN data ELSE files[q]]

FileRemove(files, p) == [q \in DOMAIN files \ {p} |-> files[q]]

\* What the environment does to scipy.io.wavfile.write(audio_path, ...):
\* it works, it raises, or the file is gone again at the exists() test.
SaveOutcomes == {"ok", "OSError", "ValueError", "missing"}

\* What the environment does to open(output_audio_path, "wb") / f.write:
\* it works, open raises (file untouched), write raises (file truncated),
\* or the file is found empty or missing at the test of line 98.
OutOutcomes == {"ok", "open_raises", "write_raises", "zero", "missing"}

\* ---------------------------------------------------------------- state
\* The event queue runs one voice_chat at a time, so one frame of locals
\* (audio, audio_path, response) is live at a time; it belongs to click cur.
VARIABLES
    now,                    \* int(time.time())
    fs,                     \* tempfile.gettempdir(): path -> contents
    pc,                     \* per click: where its chain stands
    raised,                 \* per click: an exception left voice_chat
    cur,                    \* the click the frame below belongs to (0: none)
    audio,                  \* frame: the audio argument of voice_chat
    audio_path,             \* frame: local audio_path
    response,               \* frame: what requests.post ended in
    posts,                  \* frame: calls of requests.post made
    io,                     \* frame: what the environment did to the two writes
    writers,                \* path -> number of voice_chat calls that wrote it
    surfaced,               \* path -> number of calls that returned it
    processing_indicator,   \* visible flag of the processing indicator
    audio_output,           \* value of the audio player
    status_msg,             \* value of the status region
    recording_active,       \* visible flag of the "recording" indicator
    ready_indicator,        \* visible flag of the "ready" indicator
    last_started            \* the last recording event was start_recording

frame == <<cur, audio, audio_path, response, posts, io>>
ui == <<processing_indicator, audio_output, status_msg>>
rec == <<recording_active, ready_indicator, last_started>>
vars == <<now, fs, pc, raised, frame, writers, surfaced, ui, rec>>

NoIo == [save |-> "", out |-> ""]

Paths == {InputPath(t) : t \in Seconds} \cup {OutputPath(t) : t \in Seconds}

\* voice_chat is running for click k.
Running(k) == pc[k] \in {"saved", "inflight", "responded"}

Init ==
    /\ now = 0
    /\ fs = <<>>
    /\ pc = [k \in Clicks |-> "idle"]
    /\ raised = [k \in Clicks |-> FALSE]
    /\ cur = 0
    /\ audio = None
    /\ audio_path = None
    /\ response = NoResponse
    /\ posts = 0
    /\ io = NoIo
    /\ writers = [p \in Paths |-> 0]
    /\ surfaced = [p \in Paths |-> 0]
    /\ processing_indicator = FALSE
    /\ audio_output = None
    /\ status_msg = MsgReady
    /\ recording_active = FALSE
    /\ ready_indicator = TRUE
    /\ last_started = FALSE

\* time.time() moves on.
Tick ==
    /\ now < MaxTime
    /\ now' = now + 1
    /\ UNCHANGED <<rec, fs, pc, raised, frame, writers, surfaced, ui>>

\* voice_chat returns the pair `res`, which outputs=[audio_output,
\* status_msg] puts on the page; then the chain goes on to its last step.
\* When `caught` is false the call raises instead and renders nothing.
Return(k, res, caught) ==
    /\ pc' = [pc EXCEPT ![k] = "hide"]
    /\ raised' = [raised EXCEPT ![k] = ~caught]
    /\ audio_output' = IF caught THEN res[1] ELSE audio_output
    /\ status_msg' = IF caught THEN res[2] ELSE status_msg
    /\ surfaced' = IF caught /\ res[1] # None
                   THEN [surfaced EXCEPT ![res[1]] = @ + 1]
                   ELSE surfaced

\* An exception e reaches the outer try of voice_chat (lines 121-124).
Unexpected(k, e) == Return(k, <<None, MsgSystemError(e)>>, OuterCatches(e))

\* submit_btn.click: a click starts a chain.  The button takes no click
\* while the click handler itself (show_processing) is still pending; it
\* does take one while a later step of an earlier chain is.
Click(k) ==
    /\ pc[k] = "idle"
    /\ \A j \in Clicks : j < k => pc[j] \notin {"idle", "show"}
    /\ pc' = [pc EXCEPT ![k] = "show"]
    /\ UNCHANGED <<rec, now, fs, raised, frame, writers, surfaced, ui>>

\* First step of the chain: show_processing.
ShowProcessing(k) ==
    /\ pc[k] = "show"
    /\ processing_indicator' = TRUE
    /\ pc' = [pc EXCEPT ![k] = "queued"]
    /\ UNCHANGED <<rec, now, fs, raised, frame, writers, surfaced,
                   audio_output, status_msg>>

\* voice_chat, lines 18-45: a new call with fresh locals takes the audio and
\* saves it under input_<now>.wav.  The event's queue starts a call only
\* when no other call of voice_chat is running, in the order of arrival.
VcSave(k) ==
    /\ pc[k] = "queued"
    /\ \A j \in Clicks : j < k => pc[j] \notin {"idle", "show", "queued"}
    /\ \A j \in Clicks : ~Running(j)
    /\ cur' = k
    /\ response' = NoResponse
    /\ posts' = 0
    /\ \E a \in Audios, o \in SaveOutcomes :
        /\ audio' = a
        /\ IF a = None
           THEN /\ o = "ok"
                /\ Return(k, <<None, MsgNoAudio>>, TRUE)
                /\ audio_path' = None
                /\ io' = NoIo
                /\ UNCHANGED <<fs, writers>>
           ELSE /\ io' = [save |-> o, out |-> ""]
                /\ audio_path' = InputPath(now)
                /\ CASE o = "ok" ->
                          /\ fs' = FilePut(fs, InputPath(now), WavEncode(a))
                          /\ writers' = [writers EXCEPT ![InputPath(now)] = @ + 1]
                          /\ pc' = [pc EXCEPT ![k] = "saved"]
                          /\ UNCHANGED <<raised, surfaced, audio_output, status_msg>>
                     [] o = "missing" ->
                          /\ fs' = FileRemove(fs, InputPath(now))
                          /\ writers' = [writers EXCEPT ![InputPath(now)] = @ + 1]
                          /\ Return(k, <<None, MsgSaveFailed>>, TRUE)
                     [] OTHER ->
                          /\ UNCHANGED <<fs, writers>>
                          /\ Unexpected(k, o)
    /\ UNCHANGED <<rec, now, processing_indicator>>

\* voice_chat, lines 48-56: open the saved file and issue the one POST.
VcPost(k) ==
    /\ pc[k] = "saved"
    /\ \E opened \in BOOLEAN :
        IF opened /\ audio_path \in DOMAIN fs
        THEN /\ posts' = posts + 1
             /\ pc' = [pc EXCEPT ![k] = "inflight"]
             /\ UNCHANGED <<raised, surfaced, response, audio_output, status_msg>>
        ELSE /\ response' = Raised("OSError")
             /\ Return(k, RequestExcept("OSError"), TRUE)
             /\ UNCHANGED posts
    /\ UNCHANGED <<rec, now, fs, cur, audio, audio_path, io, writers, processing_indicator>>

\* requests.post (lines 52-56) ends: it raises or it returns a response.
VcRespond(k) ==
    /\ pc[k] = "inflight"
    /\ response' \in Responses \cup {Raised(e) : e \in PostExceptions}
    /\ pc' = [pc EXCEPT ![k] = "responded"]
    /\ UNCHANGED <<rec, now, fs, raised, cur, audio, audio_path, posts, io,
                   writers, surfaced, ui>>

\* voice_chat, lines 58-119: the except clauses of the POST, then classify
\* the response, save a 200 body under tts_output_<now>.wav, verify the
\* file, return.
VcHandle(k) ==
    /\ pc[k] = "responded"
    /\ IF response.exc # ""
       THEN /\ Return(k, RequestExcept(response.exc), TRUE)
            /\ UNCHANGED <<fs, io, writers>>
       ELSE IF response.status_code = 200
       THEN IF IsEmptyContent(response)
            THEN /\ Return(k, <<None, MsgEmptyResponse>>, TRUE)
                 /\ UNCHANGED <<fs, io, writers>>
            ELSE \E o \in OutOutcomes :
                 LET p == OutputPath(now)
                     files == CASE o = "ok" -> FilePut(fs, p, OutputBytes(response))
                                [] o = "open_raises" -> fs
                                [] o = "missing" -> FileRemove(fs, p)
                                [] OTHER -> FilePut(fs, p, <<>>)
                 IN  /\ io' = [io EXCEPT !.out = o]
                     /\ fs' = files
                     /\ writers' = IF o = "open_raises" THEN writers
                                   ELSE [writers EXCEPT ![p] = @ + 1]
                     /\ IF o \in {"open_raises", "write_raises"}
                        THEN Return(k, <<None, MsgOutputSaveFailed("OSError")>>, TRUE)
                        ELSE IF ~OutputVerified(files, p)
                        THEN Return(k, <<None, MsgOutputInvalid>>, TRUE)
                        ELSE Return(k, <<p, MsgSuccess>>, TRUE)
       ELSE /\ Return(k, <<None, MsgServerError(ErrorDetail(response))>>, TRUE)
            /\ UNCHANGED <<fs, io, writers>>
    /\ UNCHANGED <<rec, now, cur, audio, audio_path, response, posts, processing_indicator>>

\* Last step of the chain: hide_processing.  The frame of the finished
\* call is gone by now.
HideProcessing(k) ==
    /\ pc[k] = "hide"
    /\ processing_indicator' = FALSE
    /\ pc' = [pc EXCEPT ![k] = "done"]
    /\ IF cur = k
       THEN /\ cur' = 0
            /\ audio' = None
            /\ audio_path' = None
            /\ response' = NoResponse
            /\ posts' = 0
            /\ io' = NoIo
       ELSE UNCHANGED frame
    /\ UNCHANGED <<rec, now, fs, raised, writers, surfaced, audio_output, status_msg>>

\* recording_state with the two visibilities the wrong way round when recording.
recording_state_Swapped(recording) == <<FALSE, TRUE>>

\* recording_state: the visibilities it returns for outputs=[recording_active,
\* ready_indicator].
recording_state(recording) ==
    IF recording THEN <<TRUE, FALSE>> ELSE <<FALSE, TRUE>>

\* audio_input.start_recording: fn = lambda: recording_state(True).
StartRecording ==
    /\ recording_active' = recording_state(TRUE)[1]
    /\ ready_indicator' = recording_state(TRUE)[2]
    /\ last_started' = TRUE
    /\ UNCHANGED <<now, fs, pc, raised, frame, writers, surfaced, ui>>

\* audio_input.stop_recording: fn = lambda: recording_state(False).
StopRecording ==
    /\ recording_active' = recording_state(FALSE)[1]
    /\ ready_indicator' = recording_state(FALSE)[2]
    /\ last_started' = FALSE
    /\ UNCHANGED <<now, fs, pc, raised, frame, writers, surfaced, ui>>

Next ==
    \/ Tick
    \/ StartRecording
    \/ StopRecording
    \/ \E k \in Clicks : Click(k)
    \/ \E k \in Clicks : ShowProcessing(k)
    \/ \E k \in Clicks : VcSave(k)
    \/ \E k \in Clicks : VcPost(k)
    \/ \E k \in Clicks : VcRespond(k)
    \/ \E k \in Clicks : VcHandle(k)
    \/ \E k \in Clicks : HideProcessing(k)

Spec == Init /\ [][Next]_vars

\* ---------------------------------------------------------------- claims
\* The call for click cur has returned and no later call has started: the
\* frame holds its locals, the page holds the pair it returned.
Returned == cur # 0 /\ pc[cur] = "hide"

\* requests.post of the returned call gave a response (it did not raise).
GotResponse == Returned /\ posts = 1 /\ response \in Responses

\* Text t occurs in message m.
Contains(m, t) ==
    \E i \in 1..(Len(m) - Len(t) + 1) : SubSeq(m, i, i + Len(t) - 1) = t

\* Step of click k in which voice_chat returns.
Returns(k) == pc[k] \in {"queued", "saved", "responded"} /\ pc'[k] = "hide"

\* C1: when voice_chat has returned a path, the path names an existing file
\* of size greater than zero and the status is the success message; with any
\* other status the returned path is None.
C1_SurfacedFileExists ==
    Returned =>
        /\ audio_output # None =>
              /\ audio_output \in DOMAIN fs
              /\ Len(fs[audio_output]) > 0
              /\ status_msg = MsgSuccess
        /\ status_msg # MsgSuccess => audio_output = None

C1_Witness ==
    /\ Returned
    /\ audio_output # None
    /\ audio_output \in DOMAIN fs
    /\ Len(fs[audio_output]) > 0

\* C2 (as claimed): no output path is returned by two successful calls, so
\* two successful submissions never share an output file.
C2_DistinctOutputNames == \A p \in Paths : surfaced[p] <= 1

\* C3: no exception leaves voice_chat, every call returns a pair whose status
\* is a message and whose path is None unless the status is the success
\* message, and every call, whatever the calls before it ended in, starts
\* from fresh locals and writes only the input file of its own second.
C3_NoEscape ==
    /\ \A k \in Clicks : ~raised[k]
    /\ Returned => /\ status_msg # <<>>
                   /\ status_msg # MsgReady
                   /\ audio_output = None \/ status_msg = MsgSuccess

C3_FreshStart ==
    \A k \in Clicks :
        (pc[k] = "queued" /\ pc'[k] # "queued") =>
            /\ cur' = k
            /\ response' = NoResponse
            /\ posts' = 0
            /\ io'.out = ""
            /\ \A p \in DOMAIN fs : p # InputPath(now) => (p \in DOMAIN fs' /\ fs'[p] = fs[p])

C3_ErrorsBecomeStatus == []C3_NoEscape /\ [][C3_FreshStart]_vars

\* A call that succeeds after the first call has failed.
C3_Witness ==
    /\ MaxClicks >= 2
    /\ pc[1] = "done"
    /\ \A p \in Paths : surfaced[p] = (IF p = audio_output THEN 1 ELSE 0)
    /\ cur = 2
    /\ Returned
    /\ status_msg = MsgSuccess

\* C4 (as claimed): a 200 response with N > 0 bytes always gives (a path to
\* an existing file holding exactly the N bytes of the body, success).
C4_Original ==
    (GotResponse /\ response.status_code = 200 /\ Len(response.content) > 0) =>
        /\ audio_output # None
        /\ audio_output \in DOMAIN fs
        /\ fs[audio_output] = response.content
        /\ status_msg = MsgSuccess

\* C4 (amended): a 200 response with N > 0 bytes gives (a path to an existing
\* file holding exactly the N bytes of the body, success) when the output
\* file is written and found non-empty, and (None, a could-not-persist
\* message) when writing it raises or leaves it missing or empty.
C4_SuccessUnlessWriteFails ==
    (GotResponse /\ response.status_code = 200 /\ Len(response.content) > 0) =>
        IF io.out = "ok"
        THEN /\ audio_output # None
             /\ audio_output \in DOMAIN fs
             /\ fs[audio_output] = response.content
             /\ Len(fs[audio_output]) = Len(response.content)
             /\ status_msg = MsgSuccess
        ELSE /\ audio_output = None
             /\ status_msg \in {MsgOutputSaveFailed("OSError"), MsgOutputInvalid}
             /\ io.out \in {"open_raises", "write_raises"} <=> status_msg = MsgOutputSaveFailed("OSError")

C4_Witness ==
    /\ GotResponse
    /\ response.status_code = 200
    /\ Len(response.content) = 2
    /\ io.out = "ok"
    /\ status_msg = MsgSuccess

\* C5: when requests.post ends in a timeout, a connect timeout included,
\* voice_chat returns (None, the timeout message) without raising, after
\* exactly one POST, and writes no file in doing so.
C5_Timeout ==
    [][\A k \in Clicks :
        (pc[k] = "responded" /\ IsInstance(response.exc, "Timeout") /\ pc'[k] # "responded") =>
            /\ pc'[k] = "hide"
            /\ audio_output' = None
            /\ status_msg' = MsgTimeout
            /\ ~raised'[k]
            /\ posts = 1 /\ posts' = 1
            /\ fs' = fs
            /\ writers' = writers]_vars

C5_Witness ==
    /\ Returned
    /\ response.exc = "ConnectTimeout"
    /\ posts = 1
    /\ status_msg = MsgTimeout

\* C6 (as claimed): on a connection failure voice_chat returns (None, a
\* message that names API_URL, the URL the request was sent to).
C6_Original ==
    (Returned /\ posts = 1 /\ response.exc = "ConnectionError") =>
        /\ audio_output = None
        /\ Contains(status_msg, API_URL)

\* C6 (amended): on a connection failure that is not a timeout voice_chat
\* returns (None, a message that names the origin http://localhost:8000 of
\* API_URL, not the URL with its path /voice-chat), after exactly one POST.
C6_NamesOrigin ==
    (Returned /\ response.exc = "ConnectionError") =>
        /\ audio_output = None
        /\ Contains(status_msg, <<API_URL[1]>>)
        /\ ~Contains(status_msg, API_URL)
        /\ status_msg = MsgUnreachable
        /\ posts = 1
        /\ io.out = ""

C6_Witness ==
    /\ Returned
    /\ posts = 1
    /\ response.exc = "ConnectionError"
    /\ status_msg = MsgUnreachable

\* The body is an object whose member is the message field.
HasMessageField(c) ==
    /\ Len(c) = 5
    /\ c[1] = "{" /\ c[2] = "message" /\ c[3] = ":" /\ c[5] = "}"

\* C7: a response with a status other than 200 gives (None, the server-error
\* message) whose detail is the message field of the body when the body is
\* an object with one, and the bare status code otherwise; no file is written.
C7_ServerError ==
    [][\A k \in Clicks :
        (pc[k] = "responded" /\ response.exc = "" /\ response.status_code # 200
            /\ pc'[k] # "responded") =>
            /\ pc'[k] = "hide"
            /\ audio_output' = None
            /\ status_msg' = <<"Error Server: ">> \o
                  (IF HasMessageField(response.content)
                   THEN <<response.content[4]>>
                   ELSE <<"Kode status: ", ToString(response.status_code)>>)
            /\ fs' = fs
            /\ writers' = writers]_vars

C7_Witness ==
    /\ GotResponse
    /\ response.status_code = 500
    /\ response.content = <<"{", "message", ":", "overload", "}">>
    /\ Contains(status_msg, <<"overload">>)
    /\ audio_output = None

\* C8: a 200 response with an empty body gives (None, the empty-response
\* message) and no file is written.
C8_EmptyBody ==
    [][\A k \in Clicks :
        (pc[k] = "responded" /\ response.exc = "" /\ response.status_code = 200
            /\ response.content = <<>> /\ pc'[k] # "responded") =>
            /\ pc'[k] = "hide"
            /\ audio_output' = None
            /\ status_msg' = MsgEmptyResponse
            /\ fs' = fs
            /\ writers' = writers]_vars

C8_Witness ==
    /\ GotResponse
    /\ response.status_code = 200
    /\ response.content = <<>>
    /\ status_msg = MsgEmptyResponse
    /\ audio_output = None

\* C9 (as claimed): the processing indicator is visible for as long as a
\* call of voice_chat is running, and no chain is past voice_chat while its
\* indicator step is still to come.
C9_IndicatorWhileRunning ==
    \A k \in Clicks : Running(k) => processing_indicator

\* C10 (as claimed): at most one call of voice_chat is between its POST and
\* its return, and no temporary file is written by more than one call.
C10_OneInFlightOwnFiles ==
    /\ Cardinality({k \in Clicks : pc[k] \in {"inflight", "responded"}}) <= 1
    /\ \A p \in Paths : writers[p] <= 1

\* C11: at the start only the ready indicator is visible; in every state
\* exactly one of the two indicators is visible, the recording indicator if
\* and only if the last recording event was start_recording; and a step that
\* is a recording event leaves the processing indicator, the status text and
\* the audio output as they were.
C11_ExactlyOne ==
    /\ recording_active # ready_indicator
    /\ recording_active <=> last_started

C11_RecordingStep ==
    (recording_active' # recording_active \/ ready_indicator' # ready_indicator
        \/ last_started' # last_started) =>
        UNCHANGED <<processing_indicator, status_msg, audio_output, pc, fs>>

C11_IndicatorPair ==
    /\ (recording_active = FALSE /\ ready_indicator = TRUE)
    /\ []C11_ExactlyOne
    /\ [][C11_RecordingStep]_vars

\* Recording has started while a chain has the processing indicator up.
C11_Witness ==
    /\ recording_active
    /\ ~ready_indicator
    /\ last_started
    /\ processing_indicator
    /\ \E k \in Clicks : Running(k)

====
